---- MODULE Spec2Model ----
(***************************************************************************)
(* Model of the ics_calendar Home Assistant integration:                   *)
(*   - parsers/parser_ics.py : get_event_list, get_current_event, get_date *)
(*   - icalendarparser.py    : ICalendarParser.get_class / get_instance    *)
(*   - calendar.py           : ICSCalendarEventDevice, ICSCalendarData,    *)
(*                             the Throttle gate around update             *)
(* Time is counted in minutes; a datetime is a wall-clock reading together *)
(* with the utc offset of its zone, or naive.                              *)
(***************************************************************************)
EXTENDS Integers, Sequences, FiniteSets, TLC

\* ------------------------------------------------------------------ bounds
\* latest instant an event of a generated calendar begins or ends at
MaxT == 2
\* number of events in a generated calendar
MaxEvents == 2
\* last reading of the clock
MaxClock == 18
\* amount by which the clock advances in one step
TickStep == 8

\* minutes per day (midnight is wall % DayLen = 0)
DayLen == 24 * 60

\* ------------------------------------------------------------- datetimes
\* utc offsets of the zones that occur (the local zone is one of them)
Offsets == {0, 60}

Instants == 0..MaxT

\* a datetime or Arrow: wall-clock reading, utc offset of its zone, and
\* whether it carries a zone at all (aware = FALSE: tzinfo is None)
MkDT(kind, t, off, aware) ==
    [kind |-> kind, wall |-> IF aware THEN t + off ELSE t,
     off |-> IF aware THEN off ELSE 0, aware |-> aware]

\* the instant a datetime denotes (a floating datetime is read as utc)
Instant(dt) == dt.wall - dt.off

\* representations the parsing library hands out for begin / end
Reps == {<<"Arrow", 0, TRUE>>, <<"Arrow", 60, TRUE>>,
         <<"datetime", 0, TRUE>>, <<"datetime", 60, TRUE>>, <<"datetime", 0, FALSE>>}

DateTimes == {MkDT(r[1], t, r[2], r[3]) : r \in Reps, t \in Instants}

\* datetime.astimezone(): a naive value is taken as local wall-clock time,
\* an aware one is converted to the local zone (same instant)
astimezone(dt, local) ==
    IF ~dt.aware
    THEN [kind |-> "datetime", wall |-> dt.wall, off |-> local, aware |-> TRUE]
    ELSE [kind |-> "datetime", wall |-> dt.wall - dt.off + local, off |-> local,
          aware |-> TRUE]

\* Arrow.replace(hour=0, minute=0, second=0, microsecond=0, tzinfo="local")
ArrowReplaceMidnightLocal(arw, local) ==
    [kind |-> "Arrow", wall |-> arw.wall - (arw.wall % DayLen), off |-> local,
     aware |-> TRUE]

\* Arrow.datetime
ArrowDatetime(arw) == [arw EXCEPT !.kind = "datetime"]

\* parser_ics.get_date
get_date(arw, is_all_day, local) ==
    IF arw.kind = "Arrow"
    THEN IF is_all_day
         THEN ArrowDatetime(ArrowReplaceMidnightLocal(arw, local))
         ELSE ArrowDatetime(arw)
    ELSE IF ~arw.aware \/ is_all_day
         THEN astimezone(arw, local)
         ELSE arw

\* ---------------------------------------------------------------- events
\* an event of the parsed calendar; name identifies it within the calendar
MkEvent(n, b, e, ad, rep) ==
    [name |-> n, begin |-> MkDT(rep[1], b, rep[2], rep[3]),
     end |-> MkDT(rep[1], e, rep[2], rep[3]), all_day |-> ad]

\* Calendar(content).timeline : the events in order of begin
IsTimeline(evs) ==
    \A i \in 1..(Len(evs) - 1) : Instant(evs[i].begin) <= Instant(evs[i + 1].begin)

Shapes == {s \in Instants \X Instants \X BOOLEAN : s[1] <= s[2]}

ShapeSeqs == UNION {[1..n -> Shapes] : n \in 0..MaxEvents}

Timelines(rep) ==
    LET mk(ss) == [i \in 1..Len(ss) |-> MkEvent(i, ss[i][1], ss[i][2], ss[i][3], rep)]
    IN  {t \in {mk(ss) : ss \in ShapeSeqs} : IsTimeline(t)}

\* content that Calendar() cannot parse
Malformed == [malformed |-> TRUE]

Parsable(content) == "events" \in DOMAIN content

MkContent(evs) == [events |-> evs]

\* timeline.at(instant)
TimelineAt(evs, instant) ==
    SelectSeq(evs, LAMBDA ev : Instant(ev.begin) <= instant /\ instant <= Instant(ev.end))

\* timeline.included(start, stop)
TimelineIncluded(evs, start, stop) ==
    SelectSeq(evs, LAMBDA ev : /\ start <= Instant(ev.begin) /\ Instant(ev.begin) <= stop
                               /\ start <= Instant(ev.end) /\ Instant(ev.end) <= stop)

NoEvent == [tag |-> "none"]
Raised == [tag |-> "raise"]

\* a faulty filter that lets every event through
Skipped_nofilter(event, include_all_day) == FALSE

\* `if event.all_day and not include_all_day: continue`
Skipped(event, include_all_day) == event.all_day /\ ~include_all_day

\* a faulty comparison that prefers the later end
Replaces_later(temp_event, event) ==
    Instant(temp_event.end) < Instant(event.end)

\* `elif temp_event.end > event.end`
Replaces(temp_event, event) ==
    Instant(temp_event.end) > Instant(event.end)

\* the loop of get_current_event over timeline.at(now)
RECURSIVE SelectCurrent(_, _, _, _)
SelectCurrent(evs, i, include_all_day, temp_event) ==
    IF i > Len(evs) THEN temp_event
    ELSE LET event == evs[i] IN
         IF Skipped(event, include_all_day)
         THEN SelectCurrent(evs, i + 1, include_all_day, temp_event)
         ELSE IF temp_event = NoEvent
         THEN SelectCurrent(evs, i + 1, include_all_day, event)
         ELSE IF Replaces(temp_event, event)
         THEN SelectCurrent(evs, i + 1, include_all_day, event)
         ELSE SelectCurrent(evs, i + 1, include_all_day, temp_event)

\* the dict built from an event (uid, location and description are copied
\* through unchanged and are left out)
EventDict(event, local) ==
    [tag |-> "event",
     summary |-> event.name,
     start |-> get_date(event.begin, event.all_day, local),
     end |-> get_date(event.end, event.all_day, local),
     all_day |-> event.all_day]

\* parser_ics.get_current_event(content, include_all_day), utcnow() = now
get_current_event(content, include_all_day, now, local) ==
    IF ~Parsable(content) THEN Raised
    ELSE LET temp_event ==
                 SelectCurrent(TimelineAt(content.events, now), 1, include_all_day, NoEvent)
         IN  IF temp_event = NoEvent THEN NoEvent ELSE EventDict(temp_event, local)

\* the loop of get_event_list over timeline.included(start, end)
RECURSIVE CollectList(_, _, _, _)
CollectList(evs, i, include_all_day, local) ==
    IF i > Len(evs) THEN <<>>
    ELSE IF Skipped(evs[i], include_all_day)
    THEN CollectList(evs, i + 1, include_all_day, local)
    ELSE <<EventDict(evs[i], local)>> \o CollectList(evs, i + 1, include_all_day, local)

\* parser_ics.get_event_list(content, start, end, include_all_day)
get_event_list(content, start, end, include_all_day, local) ==
    IF ~Parsable(content) THEN Raised
    ELSE [tag |-> "list",
          events |-> CollectList(TimelineIncluded(content.events, start, end),
                                 1, include_all_day, local)]

\* ------------------------------------------------------- calendar.py
MIN_TIME_BETWEEN_UPDATES == 15

\* default of CONF_DOWNLOAD_INTERVAL
DOWNLOAD_INTERVAL_DEFAULT == 15

\* default of CONF_DAYS
DAYS_DEFAULT == 1

\* an optional value: <<>> is None, <<v>> holds v
None == <<>>
Some(v) == <<v>>

\* the parser identifiers a calendar is configured with in the model
ParserIds == {"rie", "ics", "nope"}

\* parsers/parser_<id>.py that can be imported
ParserModules == {"rie", "ics"}

\* "Parser" + parser.upper()
ParserClassName(parser) ==
    CASE parser = "rie" -> "ParserRIE"
      [] parser = "ics" -> "ParserICS"
      [] OTHER -> "ParserNOPE"

\* the class each parser module defines
ModuleClass(parser) ==
    CASE parser = "ics" -> "parser_ics"
      [] OTHER -> "ParserRIE"

\* ICalendarParser.get_class: "None" on ImportError, "AttributeError" when
\* getattr finds no attribute of that name in the module, else "class"
get_class(parser) ==
    IF parser \notin ParserModules THEN "None"
    ELSE IF ModuleClass(parser) = ParserClassName(parser) THEN "class"
    ELSE "AttributeError"

\* ICalendarParser.get_instance
get_instance(parser) ==
    CASE get_class(parser) = "class" -> "instance"
      [] get_class(parser) = "None" -> "None"
      [] OTHER -> "AttributeError"

\* ------------------------------------- the backend behind self.parser
\* (a parser object with set_content and the two queries of the interface;
\* parsers/parser_ics.py does not provide one: its class is not found by
\* get_class and its methods take the content as an argument)
\* the all-day rule for start / end of a resolved event
BackendNormalize(dt, all_day, local) ==
    IF all_day
    THEN LET l == astimezone(dt, local)
         IN  [l EXCEPT !.wall = l.wall - (l.wall % DayLen)]
    ELSE IF ~dt.aware THEN astimezone(dt, local)
    ELSE [dt EXCEPT !.kind = "datetime"]

BackendDict(event, local) ==
    [tag |-> "event",
     summary |-> event.name,
     start |-> BackendNormalize(event.begin, event.all_day, local),
     end |-> BackendNormalize(event.end, event.all_day, local),
     all_day |-> event.all_day]

\* index of the event of evs, among those of idx, that ends first
BackendEarliestEnd(evs, idx) ==
    CHOOSE i \in idx : \A j \in idx :
        \/ Instant(evs[i].end) < Instant(evs[j].end)
        \/ Instant(evs[i].end) = Instant(evs[j].end) /\ i <= j

\* index of the event of evs, among those of idx, that starts first (the
\* one that ends first among equal starts)
BackendEarliestStart(evs, idx) ==
    LET first == {i \in idx : \A j \in idx :
                      Instant(evs[i].begin) <= Instant(evs[j].begin)}
    IN  BackendEarliestEnd(evs, first)

\* get_current_event(include_all_day, now, days) of the backend
BackendCurrentEvent(content, include_all_day, now, days, local) ==
    IF ~Parsable(content) THEN Raised
    ELSE LET evs == content.events
             ok(i) == ~evs[i].all_day \/ include_all_day
             cur == {i \in 1..Len(evs) : /\ ok(i)
                                         /\ Instant(evs[i].begin) <= now
                                         /\ now <= Instant(evs[i].end)}
             nxt == {i \in 1..Len(evs) : /\ ok(i)
                                         /\ now < Instant(evs[i].begin)
                                         /\ Instant(evs[i].begin) <= now + days * DayLen}
         IN  IF cur # {} THEN BackendDict(evs[BackendEarliestEnd(evs, cur)], local)
             ELSE IF nxt # {} THEN BackendDict(evs[BackendEarliestStart(evs, nxt)], local)
             ELSE NoEvent

\* get_event_list(start, end, include_all_day) of the backend
BackendEventList(content, start, end, include_all_day, local) ==
    IF ~Parsable(content) THEN Raised
    ELSE LET hit(e) == /\ ~e.all_day \/ include_all_day
                       /\ Instant(e.begin) < end /\ Instant(e.end) > start
             RECURSIVE walk(_)
             walk(i) == IF i > Len(content.events) THEN <<>>
                        ELSE IF hit(content.events[i])
                        THEN <<BackendDict(content.events[i], local)>> \o walk(i + 1)
                        ELSE walk(i + 1)
         IN  [tag |-> "list", events |-> walk(1)]

\* the texts the calendar url serves in the model
Title(t, offset) == [title |-> t, offset |-> offset]

FeedEvent(t, offset, b, e, ad) ==
    [name |-> Title(t, offset), begin |-> MkDT("datetime", b, 0, TRUE),
     end |-> MkDT("datetime", e, 0, TRUE), all_day |-> ad]

FeedTexts ==
    {Malformed,
     MkContent(<<FeedEvent("A", 0 - TickStep, 0, TickStep, FALSE),
                 FeedEvent("B", 0, 2 * TickStep, MaxClock, FALSE)>>),
     MkContent(<<FeedEvent("C", 0, 0, MaxClock, TRUE)>>)}

\* content of a parser that was never given any
NoContent == [unset |-> TRUE]

\* the windows the host asks event lists for
Windows == {<<0, 2 * TickStep>>, <<2 * TickStep, MaxClock + 1>>}

\* ------------------------------------------- formatting for the host
IsDatetime(x) == "wall" \in DOMAIN x

\* ICSCalendarData.get_date_formatted: strftime of a datetime
get_date_formatted(date_time, is_all_day) ==
    IF is_all_day
    THEN <<"%Y-%m-%d", date_time.wall \div DayLen>>
    ELSE <<"%Y-%m-%dT%H:%M:%S.%f%z", date_time.wall,
           IF date_time.aware THEN Some(date_time.off) ELSE None>>

\* ICSCalendarData.get_hass_date
get_hass_date(date_time, is_all_day) ==
    IF is_all_day
    THEN [key |-> "date", value |-> get_date_formatted(date_time, is_all_day)]
    ELSE [key |-> "dateTime", value |-> get_date_formatted(date_time, is_all_day)]

\* ICSCalendarData.format_dates
format_dates(event) ==
    [event EXCEPT !.start = get_date_formatted(event.start, event.all_day),
                  !.end = get_date_formatted(event.end, event.all_day)]

\* homeassistant.components.calendar.extract_offset(summary, OFFSET)
extract_offset(summary) == <<Title(summary.title, 0), summary.offset>>

\* homeassistant.components.calendar.get_date: the instant of a host date
HassInstant(d, local) ==
    IF d.key = "date" THEN d.value[2] * DayLen - local
    ELSE d.value[2] - (IF d.value[3] = None THEN local ELSE d.value[3][1])

\* homeassistant.components.calendar.is_offset_reached
is_offset_reached(start, offset, now) ==
    IF offset = 0 THEN FALSE ELSE start + offset <= now

\* ------------------------------------------------- state of the model
VARIABLES
    local,      \* utc offset of the local zone
    pContent,   \* parser_ics: the content argument
    pOp,        \* parser_ics: the function last called
    pInc,       \* parser_ics: its include_all_day argument
    pNow,       \* parser_ics: utcnow() read by get_current_event
    pDays,      \* the lookahead the caller asked for
    pStart,     \* parser_ics: start argument of get_event_list
    pEnd,       \* parser_ics: end argument of get_event_list
    pArw,       \* parser_ics: arw argument of get_date
    pResult,    \* parser_ics: what the call returned
    clock,            \* hanow() / utcnow()
    phase,            \* "new", "ready" (entity constructed) or "failed"
    cfg,              \* device_data kept by ICSCalendarData
    parser,           \* ICSCalendarData.parser: "instance" or "None"
    parserContent,    \* content last given to parser.set_content
    dataEvent,        \* ICSCalendarData.event
    throttle1,        \* Throttle: time of the last completed update
    cdLast,           \* CalendarData: time of the last download
    ent_event,        \* ICSCalendarEventDevice._event
    offset_reached,   \* ICSCalendarEventDevice extra state attribute
    last_call,        \* ICSCalendarEventDevice._last_call
    last_event_list,  \* ICSCalendarEventDevice._last_event_list
    agPc,             \* async_get_events: "idle" or "awaiting"
    agWindow,         \* async_get_events: window of the awaiting call
    pendingUpdate,    \* a refresh scheduled by async_schedule_update_ha_state
    listWindow,       \* history: window _last_event_list was resolved for
    listFetchedAt,    \* history: time _last_event_list was assigned
    lastUpd,          \* history: time of the previous update call, and
                      \* whether it ran the fetch/parse cycle
    obs               \* history: the operation that ended last

pvars == <<pContent, pOp, pInc, pNow, pDays, pStart, pEnd, pArw, pResult>>

evars == <<clock, phase, cfg, parser, parserContent, dataEvent, throttle1,
           cdLast, ent_event, offset_reached, last_call,
           last_event_list, agPc, agWindow, pendingUpdate, listWindow,
           listFetchedAt, lastUpd, obs>>

vars == <<local, pvars, evars>>

MkObs(op, raised, cycle, unparsable, window, stale, soon, same) ==
    [op |-> op, raised |-> raised, cycle |-> cycle, unparsable |-> unparsable,
     window |-> window, stale |-> stale, soon |-> soon, same |-> same]

NoWindow == <<0, 0>>

ObsOf(op, raised) == MkObs(op, raised, FALSE, FALSE, NoWindow, FALSE, FALSE, FALSE)

NoCfg == [parser |-> "rie", include_all_day |-> FALSE, days |-> DAYS_DEFAULT,
          download_interval |-> DOWNLOAD_INTERVAL_DEFAULT]

InitEntityVars ==
    /\ clock = 0 /\ phase = "new" /\ cfg = NoCfg /\ parser = "None"
    /\ parserContent = NoContent /\ dataEvent = NoEvent /\ throttle1 = None
    /\ cdLast = None
    /\ ent_event = NoEvent /\ offset_reached = FALSE
    /\ last_call = None /\ last_event_list = None
    /\ agPc = "idle" /\ agWindow = NoWindow /\ pendingUpdate = FALSE
    /\ listWindow = None /\ listFetchedAt = None /\ lastUpd = None
    /\ obs = ObsOf("none", FALSE)

DaysChoices == {1, 2}

NoDT == MkDT("datetime", 0, 0, FALSE)

InitParserVars ==
    /\ pOp = "none" /\ pInc = FALSE /\ pNow = 0 /\ pDays = 1
    /\ pStart = 0 /\ pEnd = 0 /\ pArw = NoDT /\ pResult = NoEvent

InitParser ==
    /\ local \in Offsets
    /\ pContent \in {Malformed} \cup {MkContent(t) : t \in UNION {Timelines(r) : r \in Reps}}
    /\ InitParserVars
    /\ InitEntityVars

\* a call of parser_ics.get_current_event
GetCurrentEventCall ==
    \E inc \in BOOLEAN, now \in Instants, days \in DaysChoices :
        /\ pOp = "none"
        /\ pOp' = "get_current_event" /\ pInc' = inc /\ pNow' = now /\ pDays' = days
        /\ pResult' = get_current_event(pContent, inc, now, local)
        /\ pStart' = 0 /\ pEnd' = 0 /\ pArw' = NoDT
        /\ UNCHANGED <<local, pContent, evars>>

\* a call of parser_ics.get_event_list
GetEventListCall ==
    \E inc \in BOOLEAN, s \in Instants, e \in Instants :
        /\ s < e
        /\ pOp = "none"
        /\ pOp' = "get_event_list" /\ pInc' = inc /\ pStart' = s /\ pEnd' = e
        /\ pResult' = get_event_list(pContent, s, e, inc, local)
        /\ pNow' = 0 /\ pDays' = 1 /\ pArw' = NoDT
        /\ UNCHANGED <<local, pContent, evars>>

\* a call of parser_ics.get_date
GetDateCall ==
    \E arw \in DateTimes, ad \in BOOLEAN :
        /\ pOp = "none"
        /\ pOp' = "get_date" /\ pArw' = arw /\ pInc' = ad
        /\ pResult' = get_date(arw, ad, local)
        /\ pNow' = 0 /\ pDays' = 1 /\ pStart' = 0 /\ pEnd' = 0
        /\ UNCHANGED <<local, pContent, evars>>

NextParser == GetCurrentEventCall \/ GetEventListCall \/ GetDateCall

SpecParser == InitParser /\ [][NextParser]_vars

\* ------------------------------------------ the calendar entity
Init ==
    /\ local = 60
    /\ pContent = Malformed
    /\ InitParserVars
    /\ InitEntityVars

\* ICSCalendarEventDevice(entity_id, device_data): ICSCalendarData.__init__
\* looks the parser up, then reads device_data[CONF_DOWNLOAD_INTERVAL]
ConstructDevice(device_data) ==
    /\ phase = "new"
    /\ LET inst == get_instance(device_data.parser)
           error == IF inst = "AttributeError" THEN "AttributeError"
                    ELSE IF device_data.download_interval = None THEN "KeyError"
                    ELSE "no"
       IN  IF error # "no"
           THEN /\ phase' = "failed"
                /\ obs' = ObsOf(error, TRUE)
                /\ UNCHANGED <<cfg, parser>>
           ELSE /\ phase' = "ready"
                /\ parser' = inst
                /\ cfg' = [parser |-> device_data.parser,
                           include_all_day |-> device_data.include_all_day,
                           days |-> device_data.days,
                           download_interval |-> device_data.download_interval[1]]
                /\ obs' = ObsOf("construct", FALSE)
    /\ UNCHANGED <<local, pvars, clock, parserContent, dataEvent, throttle1,
                   cdLast, ent_event, offset_reached, last_call,
                   last_event_list, agPc, agWindow, pendingUpdate, listWindow,
                   listFetchedAt, lastUpd>>

\* setup_platform: device_data is built without CONF_DOWNLOAD_INTERVAL
setup_platform ==
    \E p \in ParserIds, inc \in BOOLEAN :
        ConstructDevice([parser |-> p, include_all_day |-> inc,
                         days |-> DAYS_DEFAULT, download_interval |-> None])

\* the entity constructed from a device_data that has every key
Construct ==
    \E p \in ParserIds, inc \in BOOLEAN :
        ConstructDevice([parser |-> p, include_all_day |-> inc,
                         days |-> DAYS_DEFAULT,
                         download_interval |-> Some(DOWNLOAD_INTERVAL_DEFAULT)])

\* time passes
Tick ==
    /\ clock + TickStep <= MaxClock
    /\ clock' = clock + TickStep
    /\ UNCHANGED <<local, pvars, phase, cfg, parser, parserContent, dataEvent,
                   throttle1, cdLast, ent_event, offset_reached,
                   last_call, last_event_list, agPc, agWindow, pendingUpdate,
                   listWindow, listFetchedAt, lastUpd, obs>>

\* CalendarData.download_calendar may fetch a new text
DownloadDue ==
    IF cdLast = None THEN TRUE ELSE clock - cdLast[1] > cfg.download_interval

\* what download_calendar fetched: None (it returned False) or the new text
Fetches == {None} \cup {Some(t) : t \in FeedTexts}

\* Throttle: `force or utcnow() - throttle[1] > self.min_time`
ThrottleOpen(last, now) ==
    IF last = None THEN TRUE ELSE now - last[1] > MIN_TIME_BETWEEN_UPDATES

\* ICSCalendarEventDevice.update, with the throttled ICSCalendarData.update;
\* fetched is what download_calendar brought, one call is one atomic step
UpdateBody(fetched) ==
    LET run == ThrottleOpen(throttle1, clock)
        got == run /\ fetched # None
        setRaises == got /\ parser = "None"
        content == IF got /\ ~setRaises THEN fetched[1] ELSE parserContent
        parsed == IF parser = "None" THEN Raised
                  ELSE BackendCurrentEvent(content, cfg.include_all_day, clock,
                                           cfg.days, local)
        event1 == IF parsed = Raised THEN dataEvent ELSE parsed
        fmtRaises == event1 # NoEvent /\ ~IsDatetime(event1.start)
        event2 == IF event1 = NoEvent \/ fmtRaises THEN event1
                  ELSE [event1 EXCEPT
                          !.start = get_hass_date(event1.start, event1.all_day),
                          !.end = get_hass_date(event1.end, event1.all_day)]
        raised == run /\ (setRaises \/ fmtRaises)
        event == IF ~run \/ setRaises THEN dataEvent ELSE event2
        split == extract_offset(event.summary)
        shown == IF raised THEN ent_event
                 ELSE IF event = NoEvent THEN NoEvent
                 ELSE [event EXCEPT !.summary = split[1]]
    IN  /\ phase = "ready"
        /\ IF fetched # None THEN run /\ DownloadDue ELSE TRUE
        /\ cdLast' = IF got THEN Some(clock) ELSE cdLast
        /\ parserContent' = content
        /\ dataEvent' = event
        /\ throttle1' = IF run /\ ~raised THEN Some(clock) ELSE throttle1
        /\ ent_event' = shown
        /\ offset_reached' =
               IF raised \/ event = NoEvent THEN offset_reached
               ELSE is_offset_reached(HassInstant(event.start, local), split[2], clock)
        /\ lastUpd' = Some([at |-> clock, cycle |-> run])
        /\ obs' = MkObs("update", raised, run,
                        run /\ ~setRaises /\ parser = "instance" /\ content = Malformed,
                        NoWindow, FALSE,
                        IF lastUpd = None THEN FALSE
                        ELSE /\ clock - lastUpd[1].at < MIN_TIME_BETWEEN_UPDATES
                             /\ lastUpd[1].cycle,
                        shown = ent_event)
        /\ UNCHANGED <<local, pvars, clock, phase, cfg, parser, last_call,
                       last_event_list, agPc, agWindow, listWindow, listFetchedAt>>

\* the host polls the entity
EntityUpdate ==
    \E fetched \in Fetches : UpdateBody(fetched) /\ UNCHANGED pendingUpdate

\* the refresh scheduled by should_poll runs
ScheduledUpdate ==
    \E fetched \in Fetches :
        /\ pendingUpdate
        /\ UpdateBody(fetched)
        /\ pendingUpdate' = FALSE

\* the `if` shared by should_poll and async_get_events
ListStale(this_call) ==
    IF last_event_list = None \/ last_call = None THEN TRUE
    ELSE this_call - last_call[1] > MIN_TIME_BETWEEN_UPDATES

\* ICSCalendarEventDevice.should_poll
should_poll ==
    /\ phase = "ready"
    /\ IF ListStale(clock)
       THEN /\ last_call' = Some(clock)
            /\ pendingUpdate' = TRUE
       ELSE UNCHANGED <<last_call, pendingUpdate>>
    /\ obs' = ObsOf("should_poll", FALSE)
    /\ UNCHANGED <<local, pvars, clock, phase, cfg, parser, parserContent,
                   dataEvent, throttle1, cdLast, ent_event,
                   offset_reached, last_event_list, agPc, agWindow, listWindow,
                   listFetchedAt, lastUpd>>

\* ICSCalendarEventDevice.async_get_events up to its await, or to its return
\* when the cached list is served
AsyncGetEventsCall ==
    \E w \in Windows :
        /\ phase = "ready" /\ agPc = "idle"
        /\ IF ListStale(clock)
           THEN /\ last_call' = Some(clock)
                /\ agPc' = "awaiting"
                /\ agWindow' = w
                /\ obs' = ObsOf("async_get_events_call", FALSE)
           ELSE /\ obs' = MkObs("async_get_events", FALSE, FALSE, FALSE, w,
                                IF listFetchedAt = None THEN FALSE
                                ELSE clock - listFetchedAt[1] > MIN_TIME_BETWEEN_UPDATES,
                                FALSE, FALSE)
                /\ UNCHANGED <<last_call, agPc, agWindow>>
        /\ UNCHANGED <<local, pvars, clock, phase, cfg, parser, parserContent,
                       dataEvent, throttle1, cdLast, ent_event,
                       offset_reached, last_event_list, pendingUpdate,
                       listWindow, listFetchedAt, lastUpd>>

\* ICSCalendarData.async_get_events and the assignment of its result
AsyncGetEventsResume ==
    \E fetched \in Fetches :
        LET got == fetched # None
            setRaises == got /\ parser = "None"
            content == IF got /\ ~setRaises THEN fetched[1] ELSE parserContent
            parsed == IF parser = "None" THEN Raised
                      ELSE BackendEventList(content, agWindow[1], agWindow[2],
                                            cfg.include_all_day, local)
            event_list == IF parsed = Raised THEN <<>>
                          ELSE [i \in 1..Len(parsed.events) |->
                                    format_dates(parsed.events[i])]
        IN  /\ phase = "ready" /\ agPc = "awaiting"
            /\ IF got THEN DownloadDue ELSE TRUE
            /\ cdLast' = IF got THEN Some(clock) ELSE cdLast
            /\ parserContent' = content
            /\ IF setRaises
               THEN UNCHANGED <<last_event_list, listWindow, listFetchedAt>>
               ELSE /\ last_event_list' = Some(event_list)
                    /\ listWindow' = Some(agWindow)
                    /\ listFetchedAt' = Some(clock)
            /\ agPc' = "idle"
            /\ agWindow' = NoWindow
            /\ obs' = MkObs("async_get_events", setRaises, TRUE,
                            ~setRaises /\ parser = "instance" /\ content = Malformed,
                            agWindow, FALSE, FALSE, FALSE)
            /\ UNCHANGED <<local, pvars, clock, phase, cfg, parser, dataEvent,
                           throttle1, ent_event, offset_reached, last_call,
                           pendingUpdate, lastUpd>>

\* the host polls the state of the entity: should_poll and update
Next ==
    \/ setup_platform
    \/ Construct
    \/ Tick
    \/ EntityUpdate
    \/ ScheduledUpdate
    \/ should_poll

Spec == Init /\ [][Next]_vars

\* the host polls the entity and asks it for event lists
NextList ==
    \/ Construct
    \/ Tick
    \/ ScheduledUpdate
    \/ should_poll
    \/ AsyncGetEventsCall
    \/ AsyncGetEventsResume

SpecList == Init /\ [][NextList]_vars

\* ------------------------------------------- properties of parser_ics
\* the events of the content given to the call
PEvents == IF Parsable(pContent)
           THEN {pContent.events[i] : i \in 1..Len(pContent.events)}
           ELSE {}

\* an event the caller asked to see: not all-day, or all-day events included
PEligible(e) == ~e.all_day \/ pInc

\* eligible events whose interval contains now
PCurrent == {e \in PEvents : /\ PEligible(e)
                             /\ Instant(e.begin) <= pNow /\ pNow <= Instant(e.end)}

\* eligible events starting strictly after now and no later than now + days
PUpcoming == {e \in PEvents : /\ PEligible(e)
                              /\ pNow < Instant(e.begin)
                              /\ Instant(e.begin) <= pNow + pDays * DayLen}

\* the interval of e intersects the window [pStart, pEnd)
PIntersects(e) ==
    \/ Instant(e.begin) < pEnd /\ Instant(e.end) > pStart
    \/ Instant(e.begin) = Instant(e.end) /\ pStart <= Instant(e.begin)
                                         /\ Instant(e.begin) < pEnd

\* C1: when some eligible event contains now, get_current_event returns an
\* eligible event containing now whose end is the minimum among them
C1_EarliestEndCurrent ==
    (pOp = "get_current_event" /\ PCurrent # {}) =>
        /\ pResult.tag = "event"
        /\ \E e \in PCurrent :
              /\ e.name = pResult.summary
              /\ \A f \in PCurrent : Instant(e.end) <= Instant(f.end)

\* C1 witness: two overlapping eligible events contain now, the first began
\* earlier and ends later, and the second is returned
C1_Witness ==
    /\ pOp = "get_current_event" /\ Parsable(pContent)
    /\ Len(pContent.events) = 2
    /\ pContent.events[1] \in PCurrent /\ pContent.events[2] \in PCurrent
    /\ Instant(pContent.events[1].begin) < Instant(pContent.events[2].begin)
    /\ Instant(pContent.events[1].end) > Instant(pContent.events[2].end)
    /\ pResult.tag = "event" /\ pResult.summary = 2

\* C2: when no eligible event contains now, get_current_event returns the
\* eligible event with the earliest start in (now, now + days] (earliest end
\* among equal starts), and none only when there is no such event
C2_NextUpcomingFallback ==
    (pOp = "get_current_event" /\ Parsable(pContent) /\ PCurrent = {}) =>
        IF PUpcoming = {}
        THEN pResult = NoEvent
        ELSE /\ pResult.tag = "event"
             /\ \E e \in PUpcoming :
                   /\ e.name = pResult.summary
                   /\ \A f \in PUpcoming :
                         \/ Instant(e.begin) < Instant(f.begin)
                         \/ /\ Instant(e.begin) = Instant(f.begin)
                            /\ Instant(e.end) <= Instant(f.end)

\* C3: get_event_list returns exactly the eligible events whose interval
\* intersects the window [start, end)
C3_ListIsIntersection ==
    (pOp = "get_event_list" /\ Parsable(pContent)) =>
        /\ pResult.tag = "list"
        /\ {pResult.events[i].summary : i \in 1..Len(pResult.events)}
             = {e.name : e \in {f \in PEvents : PEligible(f) /\ PIntersects(f)}}

\* C6: with include_all_day false neither get_current_event nor
\* get_event_list returns an all-day event
C6_AllDayExcluded ==
    (pOp \in {"get_current_event", "get_event_list"} /\ ~pInc) =>
        /\ pResult.tag = "event" => ~pResult.all_day
        /\ pResult.tag = "list" =>
               \A i \in 1..Len(pResult.events) : ~pResult.events[i].all_day

\* C6 witness: the only events inside the window are all-day events, they
\* are not asked for, and the list is empty
C6_Witness ==
    /\ pOp = "get_event_list" /\ ~pInc /\ Parsable(pContent)
    /\ \E e \in PEvents : /\ e.all_day
                          /\ pStart <= Instant(e.begin) /\ Instant(e.end) <= pEnd
    /\ \A e \in PEvents : e.all_day
    /\ pResult.tag = "list" /\ pResult.events = <<>>

\* C7: get_date of an all-day value (a midnight in the zone of the source) is
\* midnight in the local zone, whatever that source zone and representation
C7_AllDayLocalMidnight ==
    (pOp = "get_date" /\ pInc /\ pArw.wall % DayLen = 0) =>
        /\ pResult.aware /\ pResult.off = local
        /\ pResult.wall % DayLen = 0

\* ------------------------------------------- properties of the entity
\* C4: a refresh of the current event whose content cannot be parsed does
\* not raise, and the current event of the entity is none afterwards
C4_UnparsableGivesNone ==
    (obs.op = "update" /\ obs.cycle /\ obs.unparsable) =>
        /\ ~obs.raised
        /\ ent_event = NoEvent

\* C5: an update called less than the minimum interval after an update that
\* ran the fetch/parse cycle runs no cycle and leaves the event as it was
C5_SecondCallThrottled ==
    (obs.op = "update" /\ obs.soon) => (~obs.cycle /\ obs.same)

\* C8: a parser identifier without a backend makes the construction fail, so
\* no refresh runs with an absent parser
C8_AbsentParserFailsSetup ==
    /\ phase = "ready" => parser # "None"
    /\ obs.op = "update" => parser # "None"

\* C9: the list async_get_events returns for a window is the list resolved
\* for that window
C9_ListForAskedWindow ==
    (obs.op = "async_get_events" /\ ~obs.raised) => listWindow = Some(obs.window)

\* C10: async_get_events called more than the minimum interval after the
\* cached list was fetched performs a new fetch
C10_StaleListRefetched ==
    (obs.op = "async_get_events" /\ obs.stale) => obs.cycle

====
